---- MODULE Spec2Model ----
(***************************************************************************)
(* Model of src/clients/python/examples/ensemble_image_client.py.          *)
(*                                                                         *)
(* The script is a linear pipeline: create a client, fetch the model       *)
(* metadata and configuration, validate them, enumerate and sort the image *)
(* files, pick the batch size, read the files, stack them, issue one       *)
(* inference call, post-process the response and print PASS.               *)
(*                                                                         *)
(* run[p] is the state of the run started with --protocol p.  The two runs *)
(* are executed side by side against the same environment (same server     *)
(* answers, same file system), so each action performs one step of the     *)
(* script for every run that stands at that step, with one answer of the   *)
(* environment.  The remaining variables record what the environment has   *)
(* answered.                                                               *)
(***************************************************************************)
EXTENDS Integers, Sequences, FiniteSets, TLC

VARIABLES FLAGS, run, server, fs, content, unreadable, fault, response

vars == <<FLAGS, run, server, fs, content, unreadable, fault, response>>

(***************************************************************************)
(* Bounds                                                                  *)
(***************************************************************************)
MaxBatch == 2        \* largest max_batch_size the server declares
MaxFiles == 2        \* largest number of directory entries
MaxCount == 2        \* largest number of inputs / outputs in the metadata
MaxContentLen == 1   \* longest file content, in bytes
MaxClasses == 1      \* largest --classes value

(***************************************************************************)
(* Characters, names, paths and file contents                              *)
(***************************************************************************)
Colon == 58          \* ord(':')
Sep == 47            \* ord('/'), os.sep

Protocol == {"http", "grpc"}

\* directory entry names: "b", "ab", "a", "ba", "aa", "bb", "-"
NamePool ==
    << <<98>>, <<97, 98>>, <<97>>, <<98, 97>>, <<97, 97>>, <<98, 98>>, <<45>> >>

Names == {NamePool[i] : i \in 1..(IF MaxFiles < Len(NamePool) THEN MaxFiles ELSE Len(NamePool))}

\* the positional argument image_filename: "d"
ImagePath == <<100>>

Bytes == {0, 1}

Contents == UNION {[1..n -> Bytes] : n \in 0..MaxContentLen}

\* class strings returned by the server: "1:2:c", "1:2", "1:2:c:d"
ResultStrings ==
    { <<49, Colon, 50, Colon, 99>>,
      <<49, Colon, 50>>,
      <<49, Colon, 50, Colon, 99, Colon, 100>> }

Dtypes == {"bytes", "str"}

(***************************************************************************)
(* Library functions the script calls                                      *)
(***************************************************************************)
\* os.path.join(a, f)
path_join(a, f) == a \o <<Sep>> \o f

\* str.__lt__: lexicographic order by code point
RECURSIVE str_lt(_, _)
str_lt(a, b) ==
    IF a = <<>> THEN b # <<>>
    ELSE IF b = <<>> THEN FALSE
    ELSE IF Head(a) # Head(b) THEN Head(a) < Head(b)
    ELSE str_lt(Tail(a), Tail(b))

RECURSIVE insert_sorted(_, _)
insert_sorted(x, s) ==
    IF s = <<>> THEN <<x>>
    ELSE IF str_lt(x, Head(s)) THEN <<x>> \o s
    ELSE <<Head(s)>> \o insert_sorted(x, Tail(s))

\* a list left in the order os.listdir returned it
list_sort_mut(s) == s

\* list.sort() on a list of str
RECURSIVE list_sort(_)
list_sort(s) ==
    IF s = <<>> THEN <<>> ELSE insert_sorted(Head(s), list_sort(Tail(s)))

\* np.array([data], dtype=bytes): a fixed-width 'S' array; its element reads
\* back without the trailing NUL bytes
RECURSIVE np_bytes(_)
np_bytes(data) ==
    IF data = <<>> THEN <<>>
    ELSE IF data[Len(data)] = 0 THEN np_bytes(SubSeq(data, 1, Len(data) - 1))
    ELSE data

\* str.split(':')
RECURSIVE str_split(_, _)
str_split(s, acc) ==
    IF s = <<>> THEN <<acc>>
    ELSE IF Head(s) = Colon THEN <<acc>> \o str_split(Tail(s), <<>>)
    ELSE str_split(Tail(s), Append(acc, Head(s)))

\* "".join(chr(x) for x in result): bytes to the str of the same code points
RECURSIVE chr_join(_)
chr_join(b) == IF b = <<>> THEN <<>> ELSE <<Head(b)>> \o chr_join(Tail(b))

(***************************************************************************)
(* Process-level helpers                                                   *)
(***************************************************************************)
Line(tag, cls) == [tag |-> tag, cls |-> cls]

stdout_write(r, line) ==
    [r EXCEPT !.out = Append(@, line), !.log = Append(@, line.tag)]

logged(r, ev) == [r EXCEPT !.log = Append(@, ev)]

\* sys.exit(code)
sys_exit(r, code) == [r EXCEPT !.pc = "done", !.status = code]

\* an exception nobody catches: traceback on stderr, exit status 1
uncaught(r, exc) == [r EXCEPT !.pc = "done", !.status = 1, !.err = exc]

NoMeta == [inputs |-> <<>>, outputs |-> <<>>]
NoCfg == [input |-> <<>>, max_batch_size |-> 0]
NoResponse == [dtype |-> "", array |-> <<>>]
NoFault == [at |-> "", kind |-> ""]

InitRun ==
    [pc |-> "create", status |-> 0, out |-> <<>>, err |-> "", log |-> <<>>,
     model_metadata |-> NoMeta, model_config |-> NoCfg,
     input_name |-> 0, output_name |-> 0, batch_size |-> 0,
     filenames |-> <<>>, opened |-> <<>>, image_data |-> <<>>, idx |-> 0,
     input_filenames |-> <<>>, batched_image_data |-> <<>>,
     triton_client |-> "", requests |-> <<>>, result |-> NoResponse]

Init ==
    /\ FLAGS \in [classes : 1..MaxClasses, image_filename : {ImagePath}]
    /\ run = [p \in Protocol |-> InitRun]
    /\ server = [inputs |-> 0, outputs |-> 0, cfg_input |-> 0, max_batch_size |-> 0]
    /\ fs = [listed |-> FALSE, isdir |-> FALSE, regular |-> {}, subdirs |-> {}]
    /\ content = <<>>
    /\ unreadable = {}
    /\ fault = NoFault
    /\ response = NoResponse

\* one step of the script, taken by every run that stands at pcv
Lockstep(pcv, step(_, _)) ==
    /\ \E p \in Protocol : run[p].pc = pcv
    /\ run' = [p \in Protocol |->
                 IF run[p].pc = pcv THEN step(p, run[p]) ELSE run[p]]

(***************************************************************************)
(* Functions of the script                                                 *)
(***************************************************************************)
Raised(msg) ==
    [raised |-> TRUE, msg |-> msg, input_name |-> 0, output_name |-> 0,
     max_batch_size |-> 0]

Parsed(i, o, m) ==
    [raised |-> FALSE, msg |-> "", input_name |-> i, output_name |-> o,
     max_batch_size |-> m]

\* parse_model_grpc without the check of the model configuration
parse_model_grpc_mut(model_metadata, model_config) ==
    IF Len(model_metadata.inputs) # 1 THEN Raised("expecting 1 input")
    ELSE IF Len(model_metadata.outputs) # 1 THEN Raised("expecting 1 output")
    ELSE Parsed(model_metadata.inputs[1].name, model_metadata.outputs[1].name,
                model_config.max_batch_size)

parse_model_grpc(model_metadata, model_config) ==
    IF Len(model_metadata.inputs) # 1 THEN Raised("expecting 1 input")
    ELSE IF Len(model_metadata.outputs) # 1 THEN Raised("expecting 1 output")
    ELSE IF Len(model_config.input) # 1
    THEN Raised("expecting 1 input in model configuration")
    ELSE Parsed(model_metadata.inputs[1].name, model_metadata.outputs[1].name,
                model_config.max_batch_size)

\* parse_model_http without the check of the number of outputs
parse_model_http_mut(model_metadata, model_config) ==
    IF Len(model_metadata["inputs"]) # 1 THEN Raised("expecting 1 input")
    ELSE IF Len(model_config["input"]) # 1
    THEN Raised("expecting 1 input in model configuration")
    ELSE Parsed(model_metadata["inputs"][1]["name"], 101,
                model_config["max_batch_size"])

parse_model_http(model_metadata, model_config) ==
    IF Len(model_metadata["inputs"]) # 1 THEN Raised("expecting 1 input")
    ELSE IF Len(model_metadata["outputs"]) # 1 THEN Raised("expecting 1 output")
    ELSE IF Len(model_config["input"]) # 1
    THEN Raised("expecting 1 input in model configuration")
    ELSE Parsed(model_metadata["inputs"][1]["name"],
                model_metadata["outputs"][1]["name"],
                model_config["max_batch_size"])

(***************************************************************************)
(* Steps of __main__                                                       *)
(***************************************************************************)
\* how an operation of the environment fails: with the client library's
\* InferenceServerException, or with any other exception (e.g. a socket error)
Failures == {"InferenceServerException", "OSError"}

\* lines 147-158
create_client(p, r, failure) ==
    LET r1 == logged([r EXCEPT !.triton_client = IF p = "grpc" THEN "grpc" ELSE "http"],
                     "InferenceServerClient")
    IN  IF failure = "" THEN [r1 EXCEPT !.pc = "metadata"]
        ELSE sys_exit(stdout_write(r1, Line("client creation failed", <<>>)), 1)

CreateClient ==
    \/ /\ Lockstep("create", LAMBDA p, r : create_client(p, r, ""))
       /\ UNCHANGED <<FLAGS, server, fs, content, unreadable, fault, response>>
    \/ /\ \E f \in Failures :
            /\ Lockstep("create", LAMBDA p, r : create_client(p, r, f))
            /\ fault' = [at |-> "create", kind |-> f]
       /\ UNCHANGED <<FLAGS, server, fs, content, unreadable, response>>

MetadataOf(n, m) ==
    [inputs |-> [i \in 1..n |-> [name |-> i]],
     outputs |-> [i \in 1..m |-> [name |-> 100 + i]]]

ConfigOf(n, mbs) == [input |-> [i \in 1..n |-> [name |-> i]], max_batch_size |-> mbs]

\* lines 164-168
get_model_metadata(r, failure, md) ==
    LET r1 == logged(r, "get_model_metadata")
    IN  IF failure = "" THEN [r1 EXCEPT !.model_metadata = md, !.pc = "config"]
        ELSE IF failure = "InferenceServerException"
        THEN sys_exit(stdout_write(r1, Line("failed to retrieve the metadata", <<>>)), 1)
        ELSE uncaught(r1, failure)

GetModelMetadata ==
    \/ /\ \E n \in 0..MaxCount, m \in 0..MaxCount :
            /\ Lockstep("metadata",
                        LAMBDA p, r : get_model_metadata(r, "", MetadataOf(n, m)))
            /\ server' = [server EXCEPT !.inputs = n, !.outputs = m]
       /\ UNCHANGED <<FLAGS, fs, content, unreadable, fault, response>>
    \/ /\ \E f \in Failures :
            /\ Lockstep("metadata", LAMBDA p, r : get_model_metadata(r, f, NoMeta))
            /\ fault' = [at |-> "metadata", kind |-> f]
       /\ UNCHANGED <<FLAGS, server, fs, content, unreadable, response>>

\* get_model_config with "except Exception" in place of
\* "except InferenceServerException"
get_model_config_mut(p, r, failure, cfg) ==
    LET r1 == logged(r, "get_model_config")
    IN  IF failure = ""
        THEN [r1 EXCEPT !.model_config = IF r.triton_client = "grpc"
                                         THEN [config |-> cfg] ELSE cfg,
                        !.pc = "parse"]
        ELSE sys_exit(stdout_write(r1, Line("failed to retrieve the config", <<>>)), 1)

\* lines 170-174; the gRPC client answers a message whose field config holds
\* the configuration, the HTTP client answers the configuration itself
get_model_config(p, r, failure, cfg) ==
    LET r1 == logged(r, "get_model_config")
    IN  IF failure = ""
        THEN [r1 EXCEPT !.model_config = IF r.triton_client = "grpc"
                                         THEN [config |-> cfg] ELSE cfg,
                        !.pc = "parse"]
        ELSE IF failure = "InferenceServerException"
        THEN sys_exit(stdout_write(r1, Line("failed to retrieve the config", <<>>)), 1)
        ELSE uncaught(r1, failure)

GetModelConfig ==
    \/ /\ \E n \in 0..MaxCount, mbs \in 0..MaxBatch :
            /\ Lockstep("config",
                        LAMBDA p, r : get_model_config(p, r, "", ConfigOf(n, mbs)))
            /\ server' = [server EXCEPT !.cfg_input = n, !.max_batch_size = mbs]
       /\ UNCHANGED <<FLAGS, fs, content, unreadable, fault, response>>
    \/ /\ \E f \in Failures :
            /\ Lockstep("config", LAMBDA p, r : get_model_config(p, r, f, NoCfg))
            /\ fault' = [at |-> "config", kind |-> f]
       /\ UNCHANGED <<FLAGS, server, fs, content, unreadable, response>>

\* lines 176-181
parse_model(p, r) ==
    LET res == IF p = "grpc"
               THEN parse_model_grpc(r.model_metadata, r.model_config.config)
               ELSE parse_model_http(r.model_metadata, r.model_config)
    IN  IF res.raised THEN uncaught(r, "Exception")
        ELSE [r EXCEPT !.input_name = res.input_name,
                       !.output_name = res.output_name,
                       !.batch_size = res.max_batch_size,
                       !.pc = "list"]

ParseModel ==
    /\ Lockstep("parse", parse_model)
    /\ UNCHANGED <<FLAGS, server, fs, content, unreadable, fault, response>>

\* every order in which os.listdir can return the entries of S
Listings(S) ==
    {l \in [1..Cardinality(S) -> S] : \A i, j \in DOMAIN l : l[i] = l[j] => i = j}

RECURSIVE join_regular(_, _, _)
join_regular(dir, listing, regular) ==
    IF listing = <<>> THEN <<>>
    ELSE (IF Head(listing) \in regular
          THEN <<path_join(dir, Head(listing))>> ELSE <<>>)
         \o join_regular(dir, Tail(listing), regular)

\* lines 183-195
list_files(r, isdir, listing, regular) ==
    LET filenames == IF isdir
                     THEN join_regular(FLAGS.image_filename, listing, regular)
                     ELSE <<FLAGS.image_filename>>
    IN  [r EXCEPT !.filenames = list_sort(filenames), !.pc = "select"]

ListFiles ==
    \/ /\ \E S \in SUBSET Names : \E listing \in Listings(S) : \E regular \in SUBSET S :
            /\ Lockstep("list", LAMBDA p, r : list_files(logged(r, "listdir"), TRUE, listing, regular))
            /\ fs' = [listed |-> TRUE, isdir |-> TRUE, regular |-> regular,
                     subdirs |-> S \ regular]
       /\ UNCHANGED <<FLAGS, server, content, unreadable, fault, response>>
    \/ /\ Lockstep("list", LAMBDA p, r : list_files(r, FALSE, <<>>, {}))
       /\ fs' = [listed |-> TRUE, isdir |-> FALSE, regular |-> {}, subdirs |-> {}]
       /\ UNCHANGED <<FLAGS, server, content, unreadable, fault, response>>

\* select_batch without the truncation to the declared maximum
select_batch_mut(r) ==
    [r EXCEPT !.batch_size = Len(r.filenames), !.image_data = <<>>, !.idx = 0,
              !.pc = IF 0 < Len(r.filenames) THEN "read" ELSE "stack"]

\* lines 197-203
select_batch(r) ==
    LET r1 == IF Len(r.filenames) <= r.batch_size
              THEN [r EXCEPT !.batch_size = Len(r.filenames)]
              ELSE stdout_write(r, Line("The number of images exceeds maximum batch size", <<>>))
    IN  [r1 EXCEPT !.image_data = <<>>, !.idx = 0,
                   !.pc = IF 0 < r1.batch_size THEN "read" ELSE "stack"]

SelectBatch ==
    /\ Lockstep("select", LAMBDA p, r : select_batch(r))
    /\ UNCHANGED <<FLAGS, server, fs, content, unreadable, fault, response>>

\* read_image that swallows the I/O error and goes on with an empty image
read_image_mut(r, failure, data) ==
    LET r1 == logged([r EXCEPT !.opened = Append(@, r.filenames[r.idx + 1])], "open")
    IN  [r1 EXCEPT !.image_data = Append(@, IF failure # "" THEN <<>> ELSE np_bytes(data)),
                   !.idx = @ + 1,
                   !.pc = IF r.idx + 1 < r.batch_size THEN "read" ELSE "stack"]

\* lines 208-210, one iteration: open(filenames[idx], "rb") and fd.read()
read_image(r, failure, data) ==
    LET r1 == logged([r EXCEPT !.opened = Append(@, r.filenames[r.idx + 1])], "open")
    IN  IF failure # "" THEN uncaught(r1, failure)
        ELSE [r1 EXCEPT !.image_data = Append(@, np_bytes(data)),
                        !.idx = @ + 1,
                        !.pc = IF r.idx + 1 < r.batch_size THEN "read" ELSE "stack"]

Opened == {run[p].filenames[run[p].idx + 1] : p \in {q \in Protocol : run[q].pc = "read"}}

ReadImage ==
    \/ /\ \E data \in Contents :
            /\ \A f \in Opened : f \in DOMAIN content => content[f] = data
            /\ Lockstep("read", LAMBDA p, r : read_image(r, "", data))
            /\ content' = [f \in Opened |-> data] @@ content
       /\ UNCHANGED <<FLAGS, server, fs, unreadable, fault, response>>
    \/ /\ Lockstep("read", LAMBDA p, r : read_image(r, "OSError", <<>>))
       /\ unreadable' = unreadable \cup Opened
       /\ fault' = [at |-> "read", kind |-> "OSError"]
       /\ UNCHANGED <<FLAGS, server, fs, content, response>>

\* stack_batch with a stack that accepts an empty list
stack_batch_mut(r) ==
    LET n == IF r.batch_size > 0 THEN r.batch_size ELSE 0
    IN  [r EXCEPT !.input_filenames = [i \in 1..n |-> r.filenames[i]],
                  !.batched_image_data = [i \in 1..n |-> r.image_data[i]],
                  !.pc = "infer"]

\* lines 212-219: the second loop and np.stack, which raises ValueError on an
\* empty list
stack_batch(r) ==
    LET n == IF r.batch_size > 0 THEN r.batch_size ELSE 0
        input_filenames == [i \in 1..n |-> r.filenames[i]]
        repeated_image_data == [i \in 1..n |-> r.image_data[i]]
    IN  IF repeated_image_data = <<>>
        THEN uncaught([r EXCEPT !.input_filenames = input_filenames], "ValueError")
        ELSE [r EXCEPT !.input_filenames = input_filenames,
                       !.batched_image_data = repeated_image_data,
                       !.pc = "infer"]

StackBatch ==
    /\ Lockstep("stack", LAMBDA p, r : stack_batch(r))
    /\ UNCHANGED <<FLAGS, server, fs, content, unreadable, fault, response>>

ModelName == "preprocess_resnet50_ensemble"

\* infer that sends the request a second time when the first call fails
infer_mut(p, r, failure, resp) ==
    LET inputs == [name |-> r.input_name,
                   shape |-> <<Len(r.batched_image_data), 1>>,
                   datatype |-> "BYTES",
                   data |-> r.batched_image_data,
                   binary_data |-> (p # "grpc")]
        outputs == [name |-> r.output_name,
                    class_count |-> FLAGS.classes,
                    binary_data |-> (p # "grpc")]
        req == [model_name |-> ModelName, inputs |-> inputs, outputs |-> outputs]
        r1 == logged([r EXCEPT !.requests = Append(@, req)], "infer")
        r2 == logged([r1 EXCEPT !.requests = Append(@, req)], "infer")
    IN  IF failure # "" THEN uncaught(r2, failure)
        ELSE [r1 EXCEPT !.result = resp, !.pc = "postprocess"]

\* lines 221-246: the InferInput, the InferRequestedOutput and the call
infer(p, r, failure, resp) ==
    LET inputs == [name |-> r.input_name,
                   shape |-> <<Len(r.batched_image_data), 1>>,
                   datatype |-> "BYTES",
                   data |-> r.batched_image_data,
                   binary_data |-> (p # "grpc")]
        outputs == [name |-> r.output_name,
                    class_count |-> FLAGS.classes,
                    binary_data |-> (p # "grpc")]
        r1 == logged([r EXCEPT !.requests =
                         Append(@, [model_name |-> ModelName, inputs |-> inputs,
                                    outputs |-> outputs])],
                     "infer")
    IN  IF failure # "" THEN uncaught(r1, failure)
        ELSE [r1 EXCEPT !.result = resp, !.pc = "postprocess"]

\* the server answers rows lists of class_count class strings
ResponseOf(rows, dtype, s) ==
    [dtype |-> dtype, array |-> [i \in 1..rows |-> [j \in 1..FLAGS.classes |-> s]]]

Infer ==
    \/ /\ \E rows \in 0..(MaxBatch + 1), dtype \in Dtypes, s \in ResultStrings :
            /\ Lockstep("infer", LAMBDA p, r : infer(p, r, "", ResponseOf(rows, dtype, s)))
            /\ response' = ResponseOf(rows, dtype, s)
       /\ UNCHANGED <<FLAGS, server, fs, content, unreadable, fault>>
    \/ /\ \E f \in Failures :
            /\ Lockstep("infer", LAMBDA p, r : infer(p, r, f, NoResponse))
            /\ fault' = [at |-> "infer", kind |-> f]
       /\ UNCHANGED <<FLAGS, server, fs, content, unreadable, response>>

RECURSIVE flatten(_)
flatten(rows) == IF rows = <<>> THEN <<>> ELSE Head(rows) \o flatten(Tail(rows))

\* lines 102-108: the lines printed for the class strings, up to the first one
\* with fewer than three fields, where cls[2] raises IndexError
RECURSIVE print_classes(_, _, _)
print_classes(results, dtype, lines) ==
    IF results = <<>> THEN [raised |-> "", lines |-> lines]
    ELSE LET cls == IF dtype = "bytes"
                    THEN str_split(chr_join(Head(results)), <<>>)
                    ELSE str_split(Head(results), <<>>)
         IN  IF Len(cls) < 3 THEN [raised |-> "IndexError", lines |-> lines]
             ELSE print_classes(Tail(results), dtype,
                                Append(lines, Line("class", <<cls[1], cls[2], cls[3]>>)))

\* postprocess without the check of the number of results
postprocess_mut(results, output_name, filenames, batch_size) ==
    print_classes(flatten(results.array), results.dtype, <<>>)

\* lines 93-108
postprocess(results, output_name, filenames, batch_size) ==
    LET output_array == results.array
    IN  IF Len(output_array) # batch_size
        THEN [raised |-> "Exception", lines |-> <<>>]
        ELSE print_classes(flatten(output_array), results.dtype, <<>>)

RECURSIVE write_lines(_, _)
write_lines(r, lines) ==
    IF lines = <<>> THEN r ELSE write_lines(stdout_write(r, Head(lines)), Tail(lines))

\* line 248
call_postprocess(r) ==
    LET res == postprocess(r.result, r.output_name, r.input_filenames, r.batch_size)
        r1 == write_lines(r, res.lines)
    IN  IF res.raised # "" THEN uncaught(r1, res.raised)
        ELSE [r1 EXCEPT !.pc = "pass"]

Postprocess ==
    /\ Lockstep("postprocess", LAMBDA p, r : call_postprocess(r))
    /\ UNCHANGED <<FLAGS, server, fs, content, unreadable, fault, response>>

\* line 250 and the end of the script
print_pass(r) == sys_exit(stdout_write(r, Line("PASS", <<>>)), 0)

Pass ==
    /\ Lockstep("pass", LAMBDA p, r : print_pass(r))
    /\ UNCHANGED <<FLAGS, server, fs, content, unreadable, fault, response>>

Next ==
    \/ CreateClient
    \/ GetModelMetadata
    \/ GetModelConfig
    \/ ParseModel
    \/ ListFiles
    \/ SelectBatch
    \/ ReadImage
    \/ StackBatch
    \/ Infer
    \/ Postprocess
    \/ Pass

Spec == Init /\ [][Next]_vars

(***************************************************************************)
(* Vocabulary of the properties                                            *)
(***************************************************************************)
\* number of candidate image files under the input path
N == IF fs.isdir THEN Cardinality(fs.regular) ELSE 1

\* maximum batch size the server declared
M == server.max_batch_size

Min(a, b) == IF a <= b THEN a ELSE b

Warning == "The number of images exceeds maximum batch size"

Diagnostic(stage) ==
    IF stage = "create" THEN "client creation failed"
    ELSE IF stage = "metadata" THEN "failed to retrieve the metadata"
    ELSE "failed to retrieve the config"

Events(r, ev) == {i \in DOMAIN r.log : r.log[i] = ev}

Printed(r, tag) == \E i \in DOMAIN r.out : r.out[i].tag = tag

Issued(r) == r.requests # <<>>

BatchSent(r) == r.requests[1].inputs.data

Passed(r) == r.pc = "done" /\ r.status = 0

\* the regular files of the directory, by name in lexicographic order
SortedNames ==
    [i \in 1..Cardinality(fs.regular) |->
        CHOOSE x \in fs.regular :
            Cardinality({y \in fs.regular : str_lt(y, x)}) = i - 1]

SortedPaths == [i \in DOMAIN SortedNames |-> path_join(FLAGS.image_filename, SortedNames[i])]

SubdirPaths == {path_join(FLAGS.image_filename, d) : d \in fs.subdirs}

BeforeSelect == {"create", "metadata", "config", "parse", "list", "select"}

(***************************************************************************)
(* Properties                                                              *)
(***************************************************************************)

\* C1: whenever the inference call is issued, the number of images in the
\* request equals min(N, M), hence is never greater than the maximum batch
\* size M the server declared.
C1_BatchSizeIsMin ==
    \A p \in Protocol : \A i \in DOMAIN run[p].requests :
        LET inputs == run[p].requests[i].inputs
        IN  /\ Len(inputs.data) = Min(N, M)
            /\ Len(inputs.data) <= M
            /\ inputs.shape[1] = Len(inputs.data)

C1_Witness ==
    \E p \in Protocol :
        /\ Issued(run[p]) /\ fs.isdir /\ N = 1 /\ M = 2
        /\ Len(BatchSent(run[p])) = 1

\* C2: for either protocol, once the metadata reports a number of inputs or
\* of outputs other than 1, the run aborts in the validation: no inference
\* call is issued and no image file is opened.
C2_CardinalityAbort ==
    \A p \in Protocol :
        (/\ Events(run[p], "get_model_metadata") # {}
         /\ fault.at # "metadata"
         /\ (server.inputs # 1 \/ server.outputs # 1))
        => /\ run[p].requests = <<>>
           /\ Events(run[p], "infer") = {}
           /\ run[p].opened = <<>>
           /\ Events(run[p], "open") = {}
           /\ run[p].pc \in {"config", "parse", "done"}
           /\ ~ Passed(run[p])

C2_Witness ==
    \A p \in Protocol :
        /\ run[p].pc = "done" /\ run[p].err = "Exception"
        /\ server.inputs = 1 /\ server.outputs = 2 /\ server.cfg_input = 1
        /\ Events(run[p], "get_model_config") # {}

\* C3 (as claimed): for a directory with N <= M regular files, the batch sent
\* holds all N files once, in lexicographic order of the file names, the i-th
\* element being the full content of the i-th file; subdirectories are left
\* out.
C3_Original ==
    \A p \in Protocol :
        (Issued(run[p]) /\ fs.isdir /\ N <= M)
        => /\ Len(BatchSent(run[p])) = N
           /\ run[p].opened = SortedPaths
           /\ \A i \in 1..N : BatchSent(run[p])[i] = content[SortedPaths[i]]
           /\ \A i \in DOMAIN run[p].opened : run[p].opened[i] \notin SubdirPaths

\* C4: for a directory with N > M regular files, the warning is printed
\* before any file is opened and before the inference call, and the batch sent
\* holds exactly M files, the first M names in lexicographic order.
C4_Truncation ==
    \A p \in Protocol :
        (fs.isdir /\ N > M)
        => /\ run[p].pc \notin BeforeSelect => Printed(run[p], Warning)
           /\ \A i \in Events(run[p], "open") \cup Events(run[p], "infer") :
                  \E j \in Events(run[p], Warning) : j < i
           /\ Issued(run[p])
              => /\ Len(BatchSent(run[p])) = M
                 /\ run[p].opened = SubSeq(SortedPaths, 1, M)

C4_Witness ==
    \E p \in Protocol :
        /\ fs.isdir /\ N = 2 /\ M = 1
        /\ Issued(run[p])
        /\ Passed(run[p])

\* C5: for either protocol, after a response whose number of results differs
\* from the batch size sent, no classification line is printed, PASS is not
\* printed and the run does not end with exit status 0.
C5_ResultCountMismatch ==
    \A p \in Protocol :
        (/\ run[p].result # NoResponse
         /\ Issued(run[p])
         /\ Len(run[p].result.array) # Len(BatchSent(run[p])))
        => /\ ~ Printed(run[p], "class")
           /\ ~ Printed(run[p], "PASS")
           /\ ~ Passed(run[p])
           /\ run[p].pc \in {"postprocess", "done"}
           /\ run[p].pc = "done" => run[p].status = 1 /\ run[p].err = "Exception"

C5_Witness ==
    \A p \in Protocol :
        /\ run[p].pc = "done" /\ run[p].err = "Exception"
        /\ Issued(run[p])
        /\ Len(BatchSent(run[p])) = 2
        /\ run[p].result.dtype = "bytes"
        /\ Len(run[p].result.array) = 3

\* C6 (as claimed): on every failure of the client creation, of the metadata
\* fetch or of the configuration fetch, of whatever kind, a diagnostic is
\* printed to standard output and the run exits with status 1 without opening
\* an image file and without an inference call.
C6_Original ==
    \A p \in Protocol :
        fault.at \in {"create", "metadata", "config"}
        => /\ run[p].pc = "done" /\ run[p].status = 1
           /\ run[p].out = <<Line(Diagnostic(fault.at), <<>>)>>
           /\ run[p].opened = <<>>
           /\ run[p].requests = <<>>

\* C6 (amended): every such failure ends the run with status 1 without
\* opening an image file and without an inference call; the diagnostic is
\* printed to standard output for every failure of the client creation and
\* for the failures of the two fetches that are InferenceServerException; a
\* fetch failure of another kind is not caught and prints nothing to
\* standard output.
C6_FetchFailures ==
    \A p \in Protocol :
        fault.at \in {"create", "metadata", "config"}
        => /\ run[p].pc = "done" /\ run[p].status = 1
           /\ run[p].opened = <<>>
           /\ run[p].requests = <<>>
           /\ Events(run[p], "infer") = {}
           /\ IF fault.at = "create" \/ fault.kind = "InferenceServerException"
              THEN /\ run[p].out = <<Line(Diagnostic(fault.at), <<>>)>>
                   /\ run[p].err = ""
              ELSE /\ run[p].out = <<>>
                   /\ run[p].err = fault.kind

C6_Witness ==
    \E p \in Protocol :
        /\ fault = [at |-> "config", kind |-> "OSError"]
        /\ run[p].pc = "done" /\ run[p].out = <<>> /\ run[p].status = 1

\* C7: each of the metadata fetch, the configuration fetch and the inference
\* call happens at most once in a run, in that order, and a run that prints
\* PASS and exits 0 has issued exactly one inference call whose response held
\* as many results as the batch sent.
C7_SingleShot ==
    \A p \in Protocol :
        /\ Cardinality(Events(run[p], "get_model_metadata")) <= 1
        /\ Cardinality(Events(run[p], "get_model_config")) <= 1
        /\ Cardinality(Events(run[p], "infer")) <= 1
        /\ Len(run[p].requests) <= 1
        /\ \A i \in Events(run[p], "get_model_config") :
               \E j \in Events(run[p], "get_model_metadata") : j < i
        /\ \A i \in Events(run[p], "infer") :
               \E j \in Events(run[p], "get_model_config") : j < i
        /\ (Printed(run[p], "PASS") \/ Passed(run[p]))
           => /\ Passed(run[p])
              /\ run[p].out[Len(run[p].out)].tag = "PASS"
              /\ Len(run[p].requests) = 1
              /\ Cardinality(Events(run[p], "infer")) = 1
              /\ Len(run[p].result.array) = Len(BatchSent(run[p]))

C7_Witness ==
    \E p \in Protocol :
        /\ Passed(run[p])
        /\ Printed(run[p], "PASS")
        /\ Len(run[p].requests) = 1
        /\ Len(BatchSent(run[p])) = 2
        /\ Len(run[p].out) = 1 + 2 * FLAGS.classes

\* what a run shows to the outside: its position, exit status, output,
\* uncaught exception, validation verdict, files opened and batch
Outcome(r) ==
    [pc |-> r.pc, status |-> r.status, out |-> r.out, err |-> r.err,
     log |-> r.log, input_name |-> r.input_name, output_name |-> r.output_name,
     batch_size |-> r.batch_size, filenames |-> r.filenames,
     opened |-> r.opened, batch |-> r.batched_image_data,
     sent |-> [i \in DOMAIN r.requests |-> r.requests[i].inputs.data],
     result |-> r.result]

\* C8: the HTTP run and the gRPC run on the same inputs have the same outcome:
\* the same validation verdict, the same batch, and the same printed lines
\* followed by PASS, or an abort at the same stage.
C8_ProtocolEquivalence ==
    \A p, q \in Protocol : Outcome(run[p]) = Outcome(run[q])

C8_Witness ==
    /\ \A p \in Protocol : Passed(run[p]) /\ Printed(run[p], "class")
    /\ run["http"].triton_client = "http"
    /\ run["grpc"].triton_client = "grpc"
    /\ run["http"].out = run["grpc"].out
    /\ response.dtype = "bytes"

\* C9: if one of the files selected for the batch cannot be opened, no
\* inference call is issued, PASS is not printed and the run ends with a
\* non-zero status.
C9_ReadFailureAborts ==
    \A p \in Protocol :
        (\E i \in DOMAIN run[p].opened : run[p].opened[i] \in unreadable)
        => /\ run[p].requests = <<>>
           /\ Events(run[p], "infer") = {}
           /\ ~ Printed(run[p], "PASS")
           /\ run[p].pc = "done"
           /\ run[p].status # 0

C9_Witness ==
    \E p \in Protocol :
        /\ run[p].pc = "done" /\ run[p].err = "OSError"
        /\ Len(run[p].image_data) = 1
        /\ Len(run[p].opened) = 2
        /\ run[p].opened[2] \in unreadable

\* C10: no inference call is issued with an empty batch; when min(N, M) = 0
\* the run aborts while the batch is assembled, before the inference call and
\* without PASS, and with M = 0 the warning is printed even for a single
\* file.
C10_NoEmptyBatch ==
    \A p \in Protocol :
        /\ \A i \in DOMAIN run[p].requests : Len(run[p].requests[i].inputs.data) >= 1
        /\ (fs.listed /\ Min(N, M) = 0)
           => /\ run[p].requests = <<>>
              /\ Events(run[p], "infer") = {}
              /\ ~ Printed(run[p], "PASS")
              /\ run[p].pc \in {"select", "stack", "done"}
              /\ run[p].pc = "done" => run[p].status = 1 /\ run[p].err = "ValueError"
              /\ (M = 0 /\ N > 0 /\ run[p].pc \notin BeforeSelect)
                 => Printed(run[p], Warning)

C10_Witness ==
    \E p \in Protocol :
        /\ fs.listed /\ ~ fs.isdir /\ M = 0
        /\ run[p].pc = "done" /\ run[p].err = "ValueError"
        /\ Printed(run[p], Warning)

====
